---- MODULE Spec2Model ----
(***************************************************************************)
(* TahomaDevice (custom_components/tahoma/tahoma_device.py): the accessors *)
(* over the coordinator's device snapshots and the asynchronous command    *)
(* execution / cancellation protocol against the hub client.               *)
(*                                                                         *)
(* Python values are modelled as follows.  str is a TLA+ string; None is   *)
(* the string NoneValue, which is in no value domain; an Optional[List] is *)
(* a record [none, list]; a dict is a function whose DOMAIN is its key     *)
(* set; a raised exception is the field "raised" of a call's outcome.      *)
(***************************************************************************)
EXTENDS Integers, Sequences, FiniteSets, TLC

VARIABLES
    device_url,     \* Facade -> str: TahomaDevice.device_url, set by __init__
    data,           \* coordinator.data: dict deviceurl -> Device snapshot
    executions,     \* coordinator.executions: dict exec_id -> entry
    registry,       \* hass.data["entity_registry"].entities, in dict order
    pc,             \* Facade -> position of its running coroutine
    frame,          \* Facade -> locals and outcome of its running coroutine
    issued,         \* hub side: execution ids accepted, events observable
    processed,      \* execution ids whose events some refresh has processed
    cancels,        \* hub side: exec_id -> number of cancel requests received
    calls,          \* number of coroutines started so far
    call            \* the last synchronous accessor call and what it returned

vars == <<device_url, data, executions, registry, pc, frame, issued,
          processed, cancels, calls, call>>

-----------------------------------------------------------------------------
(* Bounds of the model.                                                    *)

MaxCalls == 2       \* coroutines started in one behaviour
MaxStates == 2      \* length of a snapshot's state list
MaxAttributes == 1  \* length of a snapshot's attribute list
MaxCandidates == 3  \* length of a candidate list passed to select_*
MaxUrlLen == 4      \* length of a device url
MaxRegistry == 2    \* entries of the entity registry

-----------------------------------------------------------------------------
(* Program constants.                                                      *)

ATTR_RSSI_LEVEL == "rssi_level"
CORE_MANUFACTURER_NAME_STATE == "core:ManufacturerNameState"
CORE_MODEL_STATE == "core:ModelState"
CORE_RSSI_LEVEL_STATE == "core:RSSILevelState"
DOMAIN_NAME == "tahoma"

NoneValue == "<None>"

-----------------------------------------------------------------------------
(* Python built-ins used by the class.                                     *)

\* sub in s, for strings
StrContains(sub, s) ==
    \E i \in 1..(Len(s) - Len(sub) + 1) : SubSeq(s, i, i + Len(sub) - 1) = sub

\* index of the first occurrence of the one-character separator sep in s
StrFind(sep, s) ==
    CHOOSE i \in 1..Len(s) :
        /\ SubSeq(s, i, i) = sep
        /\ \A j \in 1..(i - 1) : SubSeq(s, j, j) # sep

\* s.split(sep) for a one-character separator: every separator cuts
RECURSIVE StrSplit(_, _)
StrSplit(s, sep) ==
    IF ~StrContains(sep, s)
    THEN <<s>>
    ELSE LET i == StrFind(sep, s)
         IN  <<SubSeq(s, 1, i - 1)>> \o StrSplit(SubSeq(s, i + 1, Len(s)), sep)

\* x in list
InList(x, list) == \E i \in 1..Len(list) : list[i] = x

\* the truth value of an Optional[List]: None and [] are falsy
ListTruthy(ol) == ~ol.none /\ Len(ol.list) > 0

\* a or b, for Optional[str]: None and "" are falsy
PyOr(a, b) == IF a = NoneValue \/ a = "" THEN b ELSE a

\* d[k] = v on a dict
DictSet(d, k, v) == [x \in DOMAIN d \cup {k} |-> IF x = k THEN v ELSE d[x]]

EmptyDict == [x \in {} |-> NoneValue]

NoList == [none |-> TRUE, list |-> <<>>]
SomeList(l) == [none |-> FALSE, list |-> l]

\* all sequences over S of length at most n
RECURSIVE SeqsUpTo(_, _)
SeqsUpTo(S, n) ==
    IF n = 0 THEN {<<>>}
    ELSE LET shorter == SeqsUpTo(S, n - 1)
         IN  shorter \cup {Append(s, x) : s \in shorter, x \in S}

\* all strings over the one-character strings of A of length at most n
RECURSIVE StrsUpTo(_, _)
StrsUpTo(A, n) ==
    IF n = 0 THEN {""}
    ELSE LET shorter == StrsUpTo(A, n - 1)
         IN  shorter \cup {s \o c : s \in shorter, c \in A}

-----------------------------------------------------------------------------
(* The objects of the model: two Facades sharing one coordinator.          *)

Facades == {"f1", "f2"}

InitialUrl == [f \in Facades |-> IF f = "f1" THEN "io://a" ELSE "io://b#1"]

ExecIds == {"E1", "E2"}

CommandNames == {"open", "close"}

HubError == "<HubError>"

\* a pyhoma Device as the coordinator stores it under its deviceurl
Device(url, label, avail, widget, commands, attributes, states) ==
    [deviceurl |-> url, label |-> label, available |-> avail,
     ui_class |-> "Shutter", widget |-> widget,
     controllable_name |-> "io:Blind", commands |-> commands,
     attributes |-> attributes, states |-> states]

State(n, v) == [name |-> n, value |-> v]

\* the snapshots a refresh cycle may store for url
RefreshedDevices(url) ==
    { Device(url, "Shutter", TRUE, "UpDown", {"open", "close"},
             SomeList(<<State("manufacturer", "X")>>),
             SomeList(<<State("core:ClosureState", "50")>>)),
      Device(url, "Awning", FALSE, "Awning", {"close"},
             NoList, NoList) }

InitialDevice(url) ==
    Device(url, "Shutter", TRUE, "UpDown", {"open", "close"},
           SomeList(<<State("manufacturer", "X")>>),
           SomeList(<<State("core:ClosureState", "50")>>))

Urls == {InitialUrl[f] : f \in Facades}

\* every content coordinator.data can have after a refresh: each known
\* device either keeps a fresh snapshot or was removed
Stores ==
    { d \in UNION { [present -> UNION {RefreshedDevices(u) : u \in present}]
                    : present \in SUBSET Urls }
        : \A u \in DOMAIN d : d[u].deviceurl = u }

IdleFrame ==
    [op |-> "none", arg |-> NoneValue, reply |-> NoneValue,
     outcome |-> "none", logged |-> FALSE, refreshed |-> FALSE]

NoCall == [op |-> "none"]

-----------------------------------------------------------------------------
(* The accessors of TahomaDevice.  Each takes the Device snapshot that the *)
(* property self.device returned to it.                                    *)

\* self.device: coordinator.data[self.device_url]; KeyError when absent
HasDevice(f) == device_url[f] \in DOMAIN data

\* a copy of the snapshot taken at construction instead
device_copied(f) == InitialDevice(device_url[f])

device(f) == data[device_url[f]]

name(dev) == dev.label

available(dev) == dev.available

unique_id(dev) == dev.deviceurl

assumed_state(dev) == dev.states.none \/ Len(dev.states.list) = 0

\* next((state.value for state in states if state.name in list(cands)), None)
RECURSIVE FirstStateValue(_, _)
FirstStateValue(states, cands) ==
    IF states = <<>> THEN NoneValue
    ELSE IF InList(Head(states).name, cands)
         THEN Head(states).value
         ELSE FirstStateValue(Tail(states), cands)

\* scanning the candidates first and the state list inside
select_state_by_candidate(dev, cands) ==
    LET RECURSIVE Scan(_)
        Scan(cs) ==
            IF cs = <<>> THEN NoneValue
            ELSE IF \E i \in 1..Len(dev.states.list) :
                        dev.states.list[i].name = Head(cs)
                 THEN FirstStateValue(dev.states.list, <<Head(cs)>>)
                 ELSE Scan(Tail(cs))
    IN  IF ListTruthy(dev.states) THEN Scan(cands) ELSE NoneValue

select_state(dev, cands) ==
    IF ListTruthy(dev.states)
    THEN FirstStateValue(dev.states.list, cands)
    ELSE NoneValue

has_state(dev, cands) == select_state(dev, cands) # NoneValue

\* next((c for c in commands if c in existing_commands), None)
RECURSIVE FirstCommand(_, _)
FirstCommand(cands, existing_commands) ==
    IF cands = <<>> THEN NoneValue
    ELSE IF Head(cands) \in existing_commands
         THEN Head(cands)
         ELSE FirstCommand(Tail(cands), existing_commands)

\* the last supported candidate instead of the first
select_command_last(dev, cands) ==
    LET hits == {j \in 1..Len(cands) : cands[j] \in dev.commands}
    IN  IF hits = {} THEN NoneValue
        ELSE cands[CHOOSE j \in hits : \A k \in hits : k <= j]

select_command(dev, cands) == FirstCommand(cands, dev.commands)

has_command(dev, cands) == select_command(dev, cands) # NoneValue

\* for item in items: [if "State" in item.name:] attr[item.name] = item.value
RECURSIVE WriteItems(_, _, _)
WriteItems(attr, items, onlyStates) ==
    IF items = <<>> THEN attr
    ELSE LET item == Head(items)
             next == IF onlyStates /\ ~StrContains("State", item.name)
                     THEN attr
                     ELSE DictSet(attr, item.name, item.value)
         IN  WriteItems(next, Tail(items), onlyStates)

\* the states merged before the static attributes
device_state_attributes_states_first(dev) ==
    LET attr0 == DictSet(DictSet(DictSet(EmptyDict,
                     "ui_class", dev.ui_class),
                     "widget", dev.widget),
                     "controllable_name", dev.controllable_name)
        attr1 == IF has_state(dev, <<CORE_RSSI_LEVEL_STATE>>)
                 THEN DictSet(attr0, ATTR_RSSI_LEVEL,
                              select_state(dev, <<CORE_RSSI_LEVEL_STATE>>))
                 ELSE attr0
        attr2 == IF ListTruthy(dev.states)
                 THEN WriteItems(attr1, dev.states.list, TRUE)
                 ELSE attr1
        attr3 == IF ListTruthy(dev.attributes)
                 THEN WriteItems(attr2, dev.attributes.list, FALSE)
                 ELSE attr2
    IN  attr3

device_state_attributes(dev) ==
    LET attr0 == DictSet(DictSet(DictSet(EmptyDict,
                     "ui_class", dev.ui_class),
                     "widget", dev.widget),
                     "controllable_name", dev.controllable_name)
        attr1 == IF has_state(dev, <<CORE_RSSI_LEVEL_STATE>>)
                 THEN DictSet(attr0, ATTR_RSSI_LEVEL,
                              select_state(dev, <<CORE_RSSI_LEVEL_STATE>>))
                 ELSE attr0
        attr2 == IF ListTruthy(dev.attributes)
                 THEN WriteItems(attr1, dev.attributes.list, FALSE)
                 ELSE attr1
        attr3 == IF ListTruthy(dev.states)
                 THEN WriteItems(attr2, dev.states.list, TRUE)
                 ELSE attr2
    IN  attr3

\* next((entry.original_name for ... if entry.unique_id == wanted), None)
RECURSIVE FirstOriginalName(_, _)
FirstOriginalName(entries, wanted) ==
    IF entries = <<>> THEN NoneValue
    ELSE IF Head(entries).unique_id = wanted
         THEN Head(entries).original_name
         ELSE FirstOriginalName(Tail(entries), wanted)

\* the outcome of an accessor: the value returned or the exception raised
Returned(v) == [raised |-> "none", value |-> v]
Raised(e) == [raised |-> e, value |-> NoneValue]

InfoDict(url, manufacturer, nm, model, sw) ==
    [identifiers |-> {<<DOMAIN_NAME, url>>}, manufacturer |-> manufacturer,
     name |-> nm, model |-> model, sw_version |-> sw]

\* device_url, _ = self.device.deviceurl.split("#") unpacks exactly two parts
device_info(self_device_url, dev, entities) ==
    LET manufacturer == PyOr(select_state(dev, <<CORE_MANUFACTURER_NAME_STATE>>),
                             "Somfy")
        model == PyOr(select_state(dev, <<CORE_MODEL_STATE>>), dev.widget)
        parts == StrSplit(dev.deviceurl, "#")
    IN  IF StrContains("#", self_device_url)
        THEN IF Len(parts) # 2
             THEN Raised("ValueError")
             ELSE Returned(InfoDict(parts[1], manufacturer,
                               FirstOriginalName(entities, parts[1] \o "#1"),
                               model, dev.controllable_name))
        ELSE Returned(InfoDict(self_device_url, manufacturer, name(dev),
                               model, dev.controllable_name))

-----------------------------------------------------------------------------
(* The refresh of the coordinator and the hub client: collaborators of the *)
(* class.  A refresh replaces coordinator.data wholesale and consumes the  *)
(* events pending at the hub; the hub answers a request while the          *)
(* requesting coroutine is suspended.                                      *)

Refresh ==
    /\ data' \in Stores
    /\ processed' = processed \cup issued
    /\ issued' = {}

\* the refresh scheduler's periodic refresh
ScheduledRefresh ==
    /\ Refresh
    /\ UNCHANGED <<device_url, executions, registry, pc, frame, cancels,
                   calls, call>>

\* client.execute_command at the hub: accepts, issuing an execution id whose
\* events are observable from then on, or fails
HubExecute(f) ==
    /\ pc[f] = "execute_command"
    /\ frame[f].reply = NoneValue
    /\ \E r \in ExecIds \cup {HubError} :
        /\ frame' = [frame EXCEPT ![f].reply = r]
        /\ issued' = IF r \in ExecIds THEN issued \cup {r} ELSE issued
    /\ UNCHANGED <<device_url, data, executions, registry, pc, processed,
                   cancels, calls, call>>

\* client.cancel_command at the hub: succeeds or fails
HubCancel(f) ==
    /\ pc[f] = "cancel_command"
    /\ frame[f].reply = NoneValue
    /\ \E r \in {"ok", HubError} : frame' = [frame EXCEPT ![f].reply = r]
    /\ UNCHANGED <<device_url, data, executions, registry, pc, issued,
                   processed, cancels, calls, call>>

-----------------------------------------------------------------------------
(* async_execute_command: one action per stretch between suspensions.      *)

\* the exception of execute_command left uncaught
ExecuteFailed_propagates(f) ==
    /\ frame' = [frame EXCEPT ![f].outcome = "raised"]
    /\ pc' = [pc EXCEPT ![f] = "done"]
    /\ UNCHANGED executions

\* except Exception: _LOGGER.error(exception); return
ExecuteFailed(f) ==
    /\ frame' = [frame EXCEPT ![f].logged = TRUE, ![f].outcome = "returned"]
    /\ pc' = [pc EXCEPT ![f] = "done"]
    /\ UNCHANGED executions

\* the entry not written before the refresh
RegisterExecution_skipped(execs, exec_id, dev, command_name) == execs

\* the table rebuilt around the new entry
RegisterExecution_rebuilt(execs, exec_id, dev, command_name) ==
    DictSet(EmptyDict, exec_id,
            [deviceurl |-> dev.deviceurl, command_name |-> command_name])

\* self.coordinator.executions[exec_id] = {"deviceurl": ..., "command_name": ...}
RegisterExecution(execs, exec_id, dev, command_name) ==
    DictSet(execs, exec_id,
            [deviceurl |-> dev.deviceurl, command_name |-> command_name])

\* the call up to the await of client.execute_command; the argument
\* self.device.deviceurl is evaluated inside the try
ExecuteCall(f, command_name) ==
    /\ pc[f] \in {"idle", "done"}
    /\ calls < MaxCalls
    /\ calls' = calls + 1
    /\ IF HasDevice(f)
       THEN /\ frame' = [frame EXCEPT ![f] =
                           [IdleFrame EXCEPT !.op = "execute",
                                             !.arg = command_name,
                                             !.outcome = "running"]]
            /\ pc' = [pc EXCEPT ![f] = "execute_command"]
            /\ UNCHANGED executions
       ELSE LET started == [frame EXCEPT ![f] =
                              [IdleFrame EXCEPT !.op = "execute",
                                                !.arg = command_name,
                                                !.reply = "<KeyError>"]]
            IN  /\ frame' = [started EXCEPT ![f].logged = TRUE,
                                            ![f].outcome = "returned"]
                /\ pc' = [pc EXCEPT ![f] = "done"]
                /\ UNCHANGED executions
    /\ UNCHANGED <<device_url, data, registry, issued, processed, cancels,
                   call>>

\* from the hub's answer to the await of coordinator.async_refresh
ExecuteResume(f) ==
    /\ pc[f] = "execute_command"
    /\ frame[f].reply # NoneValue
    /\ IF frame[f].reply = HubError
       THEN ExecuteFailed(f)
       ELSE IF ~HasDevice(f)
            THEN \* self.device raises KeyError outside the try
                 /\ frame' = [frame EXCEPT ![f].outcome = "raised"]
                 /\ pc' = [pc EXCEPT ![f] = "done"]
                 /\ UNCHANGED executions
            ELSE /\ executions' = RegisterExecution(executions, frame[f].reply,
                                                    device(f), frame[f].arg)
                 /\ pc' = [pc EXCEPT ![f] = "async_refresh"]
                 /\ UNCHANGED frame
    /\ UNCHANGED <<device_url, data, registry, issued, processed, cancels,
                   calls, call>>

\* the forced refresh lands and the call returns
ExecuteRefreshed(f) ==
    /\ pc[f] = "async_refresh"
    /\ Refresh
    /\ frame' = [frame EXCEPT ![f].refreshed = TRUE, ![f].outcome = "returned"]
    /\ pc' = [pc EXCEPT ![f] = "done"]
    /\ UNCHANGED <<device_url, executions, registry, cancels, calls, call>>

-----------------------------------------------------------------------------
(* async_cancel_command.                                                   *)

CancelCall(f, exec_id) ==
    /\ pc[f] \in {"idle", "done"}
    /\ calls < MaxCalls
    /\ calls' = calls + 1
    /\ frame' = [frame EXCEPT ![f] =
                    [IdleFrame EXCEPT !.op = "cancel", !.arg = exec_id,
                                      !.outcome = "running"]]
    /\ pc' = [pc EXCEPT ![f] = "cancel_command"]
    /\ cancels' = [cancels EXCEPT ![exec_id] = @ + 1]
    /\ UNCHANGED <<device_url, data, executions, registry, issued, processed,
                   call>>

\* the failure of cancel_command logged and swallowed, as execute does
CancelResume_swallowed(f) ==
    /\ pc[f] = "cancel_command"
    /\ frame[f].reply # NoneValue
    /\ frame' = [frame EXCEPT ![f].outcome = "returned",
                              ![f].logged = (frame[f].reply = HubError)]
    /\ pc' = [pc EXCEPT ![f] = "done"]
    /\ UNCHANGED <<device_url, data, executions, registry, issued, processed,
                   cancels, calls, call>>

\* await self.coordinator.client.cancel_command(exec_id), with no try
CancelResume(f) ==
    /\ pc[f] = "cancel_command"
    /\ frame[f].reply # NoneValue
    /\ frame' = [frame EXCEPT ![f].outcome =
                    IF frame[f].reply = HubError THEN "raised" ELSE "returned"]
    /\ pc' = [pc EXCEPT ![f] = "done"]
    /\ UNCHANGED <<device_url, data, executions, registry, issued, processed,
                   cancels, calls, call>>

-----------------------------------------------------------------------------
(* The protocol: Facades dispatching and cancelling concurrently while the *)
(* scheduler refreshes.                                                    *)

Init ==
    /\ device_url = InitialUrl
    /\ data = [u \in Urls |-> InitialDevice(u)]
    /\ executions = EmptyDict
    /\ registry = <<>>
    /\ pc = [f \in Facades |-> "idle"]
    /\ frame = [f \in Facades |-> IdleFrame]
    /\ issued = {}
    /\ processed = {}
    /\ cancels = [e \in ExecIds |-> 0]
    /\ calls = 0
    /\ call = NoCall

Next ==
    \/ \E f \in Facades, c \in CommandNames : ExecuteCall(f, c)
    \/ \E f \in Facades : HubExecute(f)
    \/ \E f \in Facades : ExecuteResume(f)
    \/ \E f \in Facades : ExecuteRefreshed(f)
    \/ \E f \in Facades, e \in ExecIds : CancelCall(f, e)
    \/ \E f \in Facades : HubCancel(f)
    \/ \E f \in Facades : CancelResume(f)
    \/ ScheduledRefresh

Spec == Init /\ [][Next]_vars

-----------------------------------------------------------------------------
(* Synchronous accessor calls.  The outcome of the last one is kept in     *)
(* call; self.device raises KeyError when the store has no snapshot.       *)

Accessor(dev, op, args) ==
    CASE op = "name" -> name(dev)
      [] op = "available" -> available(dev)
      [] op = "unique_id" -> unique_id(dev)
      [] op = "assumed_state" -> assumed_state(dev)
      [] op = "select_state" -> select_state(dev, args)
      [] op = "has_state" -> has_state(dev, args)
      [] op = "select_command" -> select_command(dev, args)
      [] op = "has_command" -> has_command(dev, args)
      [] op = "device_state_attributes" -> device_state_attributes(dev)

\* what a call of accessor op on Facade f leaves in call
Outcome(f, op, args) ==
    [op |-> op, facade |-> f, args |-> args,
     out |-> IF HasDevice(f)
             THEN Returned(Accessor(device(f), op, args))
             ELSE Raised("KeyError")]

\* no accessor writes anything but its result
others == <<device_url, data, executions, registry, pc, frame, issued,
            processed, cancels, calls>>

NameCall(f) ==
    /\ call' = Outcome(f, "name", <<>>)
    /\ UNCHANGED others

AvailableCall(f) ==
    /\ call' = Outcome(f, "available", <<>>)
    /\ UNCHANGED others

UniqueIdCall(f) ==
    /\ call' = Outcome(f, "unique_id", <<>>)
    /\ UNCHANGED others

AssumedStateCall(f) ==
    /\ call' = Outcome(f, "assumed_state", <<>>)
    /\ UNCHANGED others

SelectStateCall(f, cands) ==
    /\ call' = Outcome(f, "select_state", cands)
    /\ UNCHANGED others

HasStateCall(f, cands) ==
    /\ call' = Outcome(f, "has_state", cands)
    /\ UNCHANGED others

SelectCommandCall(f, cands) ==
    /\ call' = Outcome(f, "select_command", cands)
    /\ UNCHANGED others

HasCommandCall(f, cands) ==
    /\ call' = Outcome(f, "has_command", cands)
    /\ UNCHANGED others

DeviceStateAttributesCall(f) ==
    /\ call' = Outcome(f, "device_state_attributes", <<>>)
    /\ UNCHANGED others

DeviceInfoCall(f) ==
    /\ call' = [op |-> "device_info", facade |-> f, args |-> <<>>,
                out |-> IF HasDevice(f)
                        THEN device_info(device_url[f], device(f), registry)
                        ELSE Raised("KeyError")]
    /\ UNCHANGED others

-----------------------------------------------------------------------------
(* Input domains of the accessors.                                         *)

StateNames == {CORE_RSSI_LEVEL_STATE, "core:ClosureState", "io:Priority"}

StateValues == {"1", "2", NoneValue}

StateEntries == {State(n, v) : n \in StateNames, v \in StateValues}

\* device.states: None, or a list of State
StateLists ==
    {NoList} \cup {SomeList(l) : l \in SeqsUpTo(StateEntries, MaxStates)}

AttributeNames == {ATTR_RSSI_LEVEL, "ui_class", "core:ClosureState"}

AttributeEntries == {State(n, v) : n \in AttributeNames, v \in {"X", "Y"}}

\* device.attributes: None, or a list of name/value pairs
AttributeLists ==
    {NoList} \cup {SomeList(l) : l \in SeqsUpTo(AttributeEntries, MaxAttributes)}

AllCommands == {"open", "close", "toggle"}

StateCandidates == SeqsUpTo(StateNames, MaxCandidates)

CommandCandidates == SeqsUpTo(AllCommands, MaxCandidates)

UrlAlphabet == {"d", "#", "1"}

DeviceUrls == StrsUpTo(UrlAlphabet, MaxUrlLen)

RegistryEntries ==
    {[unique_id |-> u, original_name |-> n] :
        u \in {"d#1", "1#1"}, n \in {"Thermostat", NoneValue}}

Registries == SeqsUpTo(RegistryEntries, MaxRegistry)

\* the frame every accessor specification starts from: no coroutine runs
InitQuiet ==
    /\ executions = EmptyDict
    /\ pc = [f \in Facades |-> "idle"]
    /\ frame = [f \in Facades |-> IdleFrame]
    /\ issued = {}
    /\ processed = {}
    /\ cancels = [e \in ExecIds |-> 0]
    /\ calls = 0
    /\ call = NoCall

\* coordinator.data holding dev for f1 and the initial snapshot for f2
StoreWith(dev) ==
    [u \in Urls |-> IF u = InitialUrl["f1"] THEN dev ELSE InitialDevice(u)]

-----------------------------------------------------------------------------
(* select_state / has_state / select_command / has_command on every state  *)
(* list, capability set and candidate list within the bounds.              *)

InitSelect ==
    /\ InitQuiet
    /\ device_url = InitialUrl
    /\ registry = <<>>
    /\ \/ \E sl \in StateLists :
            data = StoreWith(Device(InitialUrl["f1"], "Shutter", TRUE, "UpDown",
                                    {"open", "close"}, NoList, sl))
       \/ \E cs \in SUBSET AllCommands :
            data = StoreWith(Device(InitialUrl["f1"], "Shutter", TRUE, "UpDown",
                                    cs, NoList, NoList))

\* each input is applied once
NextSelect ==
    \/ \E cands \in StateCandidates :
            call = NoCall /\ SelectStateCall("f1", cands)
    \/ \E cands \in StateCandidates :
            call = NoCall /\ HasStateCall("f1", cands)
    \/ \E cands \in CommandCandidates :
            call = NoCall /\ SelectCommandCall("f1", cands)
    \/ \E cands \in CommandCandidates :
            call = NoCall /\ HasCommandCall("f1", cands)

SpecSelect == InitSelect /\ [][NextSelect]_vars

-----------------------------------------------------------------------------
(* device_state_attributes on every attribute list and state list.         *)

InitAttributes ==
    /\ InitQuiet
    /\ device_url = InitialUrl
    /\ registry = <<>>
    /\ \E al \in AttributeLists, sl \in StateLists :
            data = StoreWith(Device(InitialUrl["f1"], "Shutter", TRUE, "UpDown",
                                    {"open", "close"}, al, sl))

NextAttributes ==
    \E f \in Facades : call = NoCall /\ DeviceStateAttributesCall(f)

SpecAttributes == InitAttributes /\ [][NextAttributes]_vars

-----------------------------------------------------------------------------
(* device_info on every device url and entity registry.                    *)

InfoStates ==
    { SomeList(<<State("core:ClosureState", "50")>>),
      SomeList(<<State(CORE_MODEL_STATE, "M1"),
                 State(CORE_MANUFACTURER_NAME_STATE, "Velux")>>) }

InitInfo ==
    /\ InitQuiet
    /\ \E url \in DeviceUrls, sl \in InfoStates :
        /\ device_url = [InitialUrl EXCEPT !["f1"] = url]
        /\ data = (url :> Device(url, "Shutter", TRUE, "UpDown",
                                 {"open", "close"}, NoList, sl))
                  @@ (InitialUrl["f2"] :> InitialDevice(InitialUrl["f2"]))
    /\ registry \in Registries

NextInfo ==
    \E f \in Facades : call = NoCall /\ DeviceInfoCall(f)

SpecInfo == InitInfo /\ [][NextInfo]_vars

-----------------------------------------------------------------------------
(* Accessor calls between wholesale replacements of the store.             *)

FreshStateCandidates ==
    {<<"core:ClosureState">>, <<"io:Priority", "core:ClosureState">>}

FreshCommandCandidates == {<<"open", "close">>, <<"toggle">>}

NextFresh ==
    \/ ScheduledRefresh
    \/ \E f \in Facades : NameCall(f)
    \/ \E f \in Facades : AvailableCall(f)
    \/ \E f \in Facades : UniqueIdCall(f)
    \/ \E f \in Facades : AssumedStateCall(f)
    \/ \E f \in Facades, cands \in FreshStateCandidates : SelectStateCall(f, cands)
    \/ \E f \in Facades, cands \in FreshCommandCandidates : SelectCommandCall(f, cands)
    \/ \E f \in Facades : DeviceStateAttributesCall(f)

SpecFresh == Init /\ [][NextFresh]_vars

-----------------------------------------------------------------------------
(* Properties of the command protocol, checked under Spec.                 *)

\* C1: when client.execute_command fails, the step of async_execute_command
\* that handles the failure leaves coordinator.executions (whatever it held)
\* and coordinator.data as they were, starts no forced refresh, logs the
\* error and returns normally; the step that submitted the command changed
\* the table no more.
C1_FailedDispatchLeavesNoTrace ==
    [][\A f \in Facades :
        /\ (pc[f] \in {"idle", "done"} /\ pc'[f] = "execute_command")
              => executions' = executions
        /\ (pc[f] = "execute_command" /\ frame[f].reply = HubError
                                      /\ pc'[f] # "execute_command")
              => /\ executions' = executions
                 /\ data' = data
                 /\ pc'[f] = "done"
                 /\ ~frame'[f].refreshed
                 /\ frame'[f].logged
                 /\ frame'[f].outcome = "returned"]_vars

\* a rejected dispatch has returned while the table held an earlier entry
C1_Witness ==
    \E f \in Facades :
        /\ pc[f] = "done"
        /\ frame[f].op = "execute"
        /\ frame[f].reply = HubError
        /\ frame[f].outcome = "returned"
        /\ DOMAIN executions # {}

\* C2: when the only call in flight is an async_execute_command that the hub
\* accepted with identifier E, then once the call has ended it returned
\* normally, executions[E] is {this Facade's device url, command_name} and
\* its forced refresh has completed, whatever the scheduler did to the store
\* meanwhile.
C2_AcceptedDispatchTrackedAtReturn ==
    \A f \in Facades :
        (calls = 1 /\ frame[f].op = "execute" /\ frame[f].reply \in ExecIds
                   /\ pc[f] = "done")
        => /\ frame[f].outcome = "returned"
           /\ frame[f].refreshed
           /\ frame[f].reply \in DOMAIN executions
           /\ executions[frame[f].reply] =
                 [deviceurl |-> device_url[f], command_name |-> frame[f].arg]

\* C3 as claimed: no refresh consumes an event for an execution id that is
\* not yet a key of coordinator.executions.
C3_NoEventBeforeEntry ==
    [][\A e \in issued \ issued' : e \in DOMAIN executions]_vars

\* C3 as amended: the forced refresh of the dispatching call runs only with
\* the identifier of that call already a key of coordinator.executions.
C3_OwnRefreshAfterEntry ==
    \A f \in Facades :
        pc[f] = "async_refresh" => frame[f].reply \in DOMAIN executions

\* a forced refresh is about to consume the event of its own dispatch
C3_Witness ==
    \E f \in Facades :
        /\ pc[f] = "async_refresh"
        /\ frame[f].reply \in issued
        /\ frame[f].reply \in DOMAIN executions

\* C7: async_cancel_command sends exactly one cancel request, for exec_id,
\* to the hub client; neither that step nor the one handling the hub's
\* answer changes coordinator.executions or coordinator.data or starts a
\* refresh; the call raises exactly when the hub client's cancel failed.
C7_CancelForwardsOnly ==
    [][\A f \in Facades :
        /\ (pc[f] \in {"idle", "done"} /\ pc'[f] = "cancel_command")
              => /\ executions' = executions
                 /\ data' = data
                 /\ cancels' = [cancels EXCEPT ![frame'[f].arg] = @ + 1]
        /\ (pc[f] = "cancel_command" /\ pc'[f] # "cancel_command")
              => /\ executions' = executions
                 /\ data' = data
                 /\ cancels' = cancels
                 /\ pc'[f] = "done"
                 /\ ~frame'[f].refreshed
                 /\ frame'[f].outcome =
                       IF frame[f].reply = HubError THEN "raised"
                                                    ELSE "returned"]_vars

\* a cancel of a tracked execution failed at the hub and raised
C7_Witness ==
    \E f \in Facades :
        /\ pc[f] = "done"
        /\ frame[f].op = "cancel"
        /\ frame[f].reply = HubError
        /\ frame[f].outcome = "raised"
        /\ cancels[frame[f].arg] = 1
        /\ frame[f].arg \in DOMAIN executions

\* C10: no step removes a key of coordinator.executions; the step of an
\* accepted dispatch that registers identifier E leaves under E the entry of
\* that dispatch (replacing one already there), adds no other key and alters
\* no other entry; no other step changes the table.
C10_TableOnlyGrows ==
    [][/\ DOMAIN executions \subseteq DOMAIN executions'
       /\ \A f \in Facades :
            (pc[f] = "execute_command" /\ pc'[f] = "async_refresh")
            => /\ DOMAIN executions' = DOMAIN executions \cup {frame[f].reply}
               /\ executions'[frame[f].reply] =
                     [deviceurl |-> device_url[f],
                      command_name |-> frame[f].arg]
               /\ \A k \in DOMAIN executions \ {frame[f].reply} :
                     executions'[k] = executions[k]
       /\ (\A f \in Facades :
              ~(pc[f] = "execute_command" /\ pc'[f] = "async_refresh"))
            => executions' = executions]_vars

\* two Facades registered the same identifier: the later entry replaced the
\* earlier one
C10_Witness ==
    \E f \in Facades, g \in Facades :
        /\ f # g
        /\ pc[f] = "done" /\ frame[f].refreshed
        /\ pc[g] = "async_refresh"
        /\ frame[f].reply = frame[g].reply
        /\ DOMAIN executions = {frame[g].reply}
        /\ executions[frame[g].reply].deviceurl = device_url[g]

-----------------------------------------------------------------------------
(* Properties of the accessors.                                            *)

C5_SelectCommandFirstCandidate ==
    LET S == device(call.facade).commands
        C == call.args
        hits == {j \in 1..Len(C) : C[j] \in S}
        first == IF hits = {} THEN NoneValue
                 ELSE C[CHOOSE j \in hits : \A k \in hits : j <= k]
    IN  /\ call.op = "select_command" => call.out = Returned(first)
        /\ call.op = "has_command" => call.out = Returned(first # NoneValue)

\* capability set {"open","close"}, candidates ["toggle","close","open"]
C5_Witness ==
    /\ call.op = "select_command"
    /\ call.args = <<"toggle", "close", "open">>
    /\ device(call.facade).commands = {"open", "close"}
    /\ call.out.value = "close"

\* C6: device_info raises nothing; its identifier is the device url up to its
\* first '#', or the whole url when it has none; without '#' the name is the
\* snapshot's label, with '#' it is the original name of a registered entity
\* whose unique id is '<prefix>#1', or None when there is none (checked under
\* SpecInfo).
C6_GroupingKeyBeforeFirstHash ==
    call.op = "device_info" =>
        LET url == device_url[call.facade]
            sub == StrContains("#", url)
            key == IF sub THEN SubSeq(url, 1, StrFind("#", url) - 1) ELSE url
            named == {i \in 1..Len(registry) :
                          registry[i].unique_id = key \o "#1"}
        IN  /\ call.out.raised = "none"
            /\ call.out.value.identifiers = {<<DOMAIN_NAME, key>>}
            /\ ~sub => call.out.value.name = device(call.facade).label
            /\ sub => IF named = {}
                      THEN call.out.value.name = NoneValue
                      ELSE \E i \in named :
                              call.out.value.name = registry[i].original_name

C9_AccessorsReadCurrentSnapshot ==
    [][LET called ==
               /\ call'.op # "none"
               /\ \/ call'.op # call.op
                  \/ call'.facade # call.facade
                  \/ call'.args # call.args
                  \/ call'.out.raised # call.out.raised
                  \/ /\ call'.out.raised = "none"
                     /\ call'.out.value # call.out.value
           stored == device_url[call'.facade] \in DOMAIN data
       IN  called =>
             /\ data' = data
             /\ call'.out.raised = IF stored THEN "none" ELSE "KeyError"
             /\ stored =>
                  call'.out.value = Accessor(data[device_url[call'.facade]],
                                             call'.op, call'.args)]_vars

\* name returned the label of a snapshot that a refresh stored after
\* construction
C9_Witness ==
    /\ call.op = "name"
    /\ call.out.value = "Awning"
    /\ data[device_url[call.facade]].label = "Awning"

====
